---------------------------- MODULE Spec2Model ----------------------------
(***************************************************************************)
(* A model of godot's Graphviz DOT parser (src/godot/dot_parser.py) and of *)
(* the Edge constructor (src/godot/edge.py).                               *)
(*                                                                         *)
(* A document is a sequence of lexemes (TLA+ strings).  White space is not *)
(* modelled: pyparsing skips it between lexemes.  The pyparsing grammar of *)
(* DotParser.define_parser is translated production by production into     *)
(* operators that take the document s and a position loc and return a      *)
(* parse result                                                            *)
(*      [st, loc, toks, names, exc]                                        *)
(* st = "match": matched, loc is the next position, toks the tokens and    *)
(*      names the results names (ParseResults keys) of the match;          *)
(* st = "nomatch": a pyparsing ParseException (the caller may backtrack);  *)
(* st = "raise": a parse action raised exc, which is not caught by         *)
(*      pyparsing and leaves parseString.                                  *)
(* Python values are records tagged with their type in the field ty, so    *)
(* that isinstance tests of the source are tests on ty.                    *)
(***************************************************************************)
EXTENDS Integers, Sequences, FiniteSets, TLC

VARIABLES
    data,        \* the DOT text handed to parse_dot_data, as lexemes
    vocab,       \* the kind of document being written (its statement vocabulary)
    nstmts,      \* statements written into data so far
    pc,          \* "header", "body", "closed", "returned", "raised"
    ret,         \* the value parse_dot_data returned (None before and on error)
    exc,         \* the exception parse_dot_data raised ("" if none)
    self,        \* the DotParser whose parse_dot_data the caller uses
    self_graph,  \* DotParser.graph, of each DotParser
    calls,       \* calls of parse_dot_data so far, on each DotParser
    \* pylon.pybrain.experiment.MarketExperiment
    agents,       \* len(self.agents), which is len(self.tasks)
    stepid,       \* MarketExperiment.stepid
    phase,        \* "idle", "act", "reward", "returned": where doInteractions is
    number,       \* the argument of doInteractions
    interaction,  \* the variable of the outer loop
    pair,         \* agent/task pairs the inner loop under way has passed
    rewards,      \* the list rewards of the interaction
    all_rewards,  \* the list all_rewards; the return value once returned
    acts,         \* this interaction: the [agent, task] pairs that acted
    statuses,     \* this call: solution["status"] of every routine.solve()
    task_rewards, \* this call: what getReward() of each task returned
    given,        \* this call: what giveReward() of each agent was handed
    stepid0,      \* stepid when doInteractions was called
    runs          \* calls of doInteractions that have returned

\* the state of the DotParser and of its caller
dotVars == <<data, vocab, nstmts, pc, ret, exc, self, self_graph, calls>>

\* the state of the MarketExperiment and of its collaborators
expVars == <<agents, stepid, phase, number, interaction, pair, rewards,
             all_rewards, acts, statuses, task_rewards, given, stepid0, runs>>

vars == <<dotVars, expVars>>

---------------------------------------------------------------------------
(* Bounds of the model.                                                    *)

\* Statements written at the top level and inside subgraph bodies together.
MaxStmts == 3
\* Nesting depth of subgraph bodies.
MaxDepth == 1
\* Documents parsed one after the other, on all DotParsers together.
MaxCalls == 2
\* DotParser instances.
MaxParsers == 2
\* Agents (and tasks) of a MarketExperiment.
MaxAgents == 2
\* The argument number of doInteractions.
MaxNumber == 2
\* Calls of doInteractions on the one MarketExperiment.
MaxRuns == 2

---------------------------------------------------------------------------
(* Python values.                                                          *)

None == [ty |-> "None"]
Str(v) == [ty |-> "str", v |-> v]
Bool(v) == [ty |-> "bool", v |-> v]
Dict(f) == [ty |-> "dict", v |-> f]
Tuple(t) == [ty |-> "tuple", v |-> t]
\* the value of a ParseResults object used as one value (its token list)
Results(t) == [ty |-> "ParseResults", v |-> t]

EmptyDict == [k \in {} |-> ""]

\* d1.update(d2)
DictUpdate(d1, d2) ==
    [k \in (DOMAIN d1) \cup (DOMAIN d2) |-> IF k \in DOMAIN d2 THEN d2[k] ELSE d1[k]]

isinstance(x, cls) == x.ty = cls


---------------------------------------------------------------------------
(* Lexemes.  A lexeme is a TLA+ string; Spell gives the characters of the  *)
(* lexemes whose characters the code looks at (case-insensitive keywords,  *)
(* the first seven characters of a subgraph ID).  Every other lexeme is    *)
(* spelled as one opaque character.                                        *)

Spell(t) ==
    CASE t = "" -> <<>>
      [] t = "strict" -> <<"s","t","r","i","c","t">>
      [] t = "STRICT" -> <<"S","T","R","I","C","T">>
      [] t = "graph" -> <<"g","r","a","p","h">>
      [] t = "GRAPH" -> <<"G","R","A","P","H">>
      [] t = "digraph" -> <<"d","i","g","r","a","p","h">>
      [] t = "DiGraph" -> <<"D","i","G","r","a","p","h">>
      [] t = "subgraph" -> <<"s","u","b","g","r","a","p","h">>
      [] t = "node" -> <<"n","o","d","e">>
      [] t = "edge" -> <<"e","d","g","e">>
      [] t = "cluster" -> <<"c","l","u","s","t","e","r">>
      [] t = "cluster_0" -> <<"c","l","u","s","t","e","r","_","0">>
      [] t = "Cluster_1" -> <<"C","l","u","s","t","e","r","_","1">>
      [] t = "sub_0" -> <<"s","u","b","_","0">>
      [] OTHER -> <<t>>

\* str.lower() on one character
LowerChar(c) ==
    CASE c = "C" -> "c" [] c = "D" -> "d" [] c = "G" -> "g" [] c = "R" -> "r"
      [] c = "A" -> "a" [] c = "P" -> "p" [] c = "H" -> "h" [] c = "S" -> "s"
      [] c = "T" -> "t" [] c = "I" -> "i" [] OTHER -> c

\* str.lower() on a spelled string
lower(cs) == [i \in 1..Len(cs) |-> LowerChar(cs[i])]

\* the slice string[:n] of a spelled string
Prefix(cs, n) == SubSeq(cs, 1, IF Len(cs) < n THEN Len(cs) ELSE n)

Punct == {"{", "}", "[", "]", "=", ",", ";", ":", "->", "--", "@", "(", ")",
          "<", ">"}
EOF == "<EOF>"

\* the lexeme at loc, EOF past the end of the text
tok(s, loc) == IF loc >= 1 /\ loc <= Len(s) THEN s[loc] ELSE EOF

\* identifier = Word(alphanums + "_"): keywords are identifiers too
identifier(t) == t \notin Punct /\ t # EOF

\* alphastring_ = OneOrMore(CharsNotIn(_noncomma)): of the printable
\* characters only the comma is left to it
alphastring_(t) == t = ","

\* string concatenation (Combine) on the port spellings of the model
Concat(pieces) ==
    CASE pieces = <<":", "nw">> -> ":nw"
      [] pieces = <<":", "e">> -> ":e"
      [] pieces = <<":", "p">> -> ":p"
      [] pieces = <<":", "p", ":", "nw">> -> ":p:nw"
      [] pieces = <<":", "p", ":", "e">> -> ":p:e"
      [] pieces = <<":", "nw", ":", "e">> -> ":nw:e"
      [] pieces = <<":", "e", ":", "nw">> -> ":e:nw"

---------------------------------------------------------------------------
(* Parse results and the pyparsing expressions the grammar is built from.  *)
(* An expression that follows another one is parsed at the loc the first   *)
(* one returned; its result is handed on as an argument.                   *)

NoNames == [n \in {} |-> None]

Match(loc, toks, names) ==
    [st |-> "match", loc |-> loc, toks |-> toks, names |-> names, exc |-> ""]
NoMatch ==
    [st |-> "nomatch", loc |-> 0, toks |-> <<>>, names |-> NoNames,
     exc |-> "ParseException"]
Raised(e) ==
    [st |-> "raise", loc |-> 0, toks |-> <<>>, names |-> NoNames, exc |-> e]

\* what a parse action returned: a list (its items become the tokens), the
\* tokens object itself, another value (the one new token), or an exception
List(t) == [ty |-> "list", v |-> t]
Raise(e) == [ty |-> "raise", exc |-> e]

\* ParserElement._parseNoCache with a parse action: the value r the action
\* returned replaces the tokens of match m; the results names of the old
\* tokens are kept only if the action returned the tokens object.
ParseAction(m, r, resultsName) ==
    IF m.st # "match" THEN m
    ELSE IF r.ty = "raise" THEN Raised(r.exc)
    ELSE IF r.ty = "ParseResults"
    THEN Match(m.loc, m.toks,
               IF resultsName # "" /\ m.toks # <<>>
               THEN (resultsName :> r) @@ m.names ELSE m.names)
    ELSE IF r.ty = "list"
    THEN Match(m.loc, r.v, IF resultsName # "" /\ r.v # <<>>
                           THEN resultsName :> r ELSE NoNames)
    ELSE Match(m.loc, <<r>>, IF resultsName # "" THEN resultsName :> r ELSE NoNames)

\* Suppress(Literal(c))
Suppress(s, loc, c) ==
    IF tok(s, loc) = c THEN Match(loc + 1, <<>>, NoNames) ELSE NoMatch

\* CaselessLiteral(k).setResultsName(name): returns k whatever the case
CaselessLiteral(s, loc, k, name) ==
    IF lower(Spell(tok(s, loc))) = Spell(k)
    THEN Match(loc + 1, <<Str(k)>>, IF name # "" THEN name :> Str(k) ELSE NoNames)
    ELSE NoMatch

\* Optional(e): nothing matched is a match of no tokens
Optional(loc, m) == IF m.st = "nomatch" THEN Match(loc, <<>>, NoNames) ELSE m

\* e1 + e2 (And): m2 is the result of e2 at m1.loc; the tokens follow each
\* other and a results name of e2 replaces the same name of e1
And(m1, m2) ==
    IF m1.st # "match" THEN m1
    ELSE IF m2.st # "match" THEN m2
    ELSE Match(m2.loc, m1.toks \o m2.toks, m2.names @@ m1.names)

\* e1 | e2 (MatchFirst): both at the same loc, e2 only if e1 does not match
MatchFirst(m1, m2) == IF m1.st # "nomatch" THEN m1 ELSE m2

\* Group(e).setResultsName(name): the tokens of e as one token
Group(m, name) ==
    IF m.st # "match" THEN m
    ELSE Match(m.loc, <<Results(m.toks)>>, name :> Results(m.toks))

\* Combine(e): the tokens of e joined into one string
Combine(m) ==
    IF m.st # "match" THEN m
    ELSE Match(m.loc, <<Str(Concat([i \in 1..Len(m.toks) |-> m.toks[i].v]))>>,
               NoNames)

\* the end of OneOrMore(e) at loc: the n repetitions matched gave toks
OneOrMore(loc, toks, n) == IF n = 0 THEN NoMatch ELSE Match(loc, toks, NoNames)

---------------------------------------------------------------------------
(* The graph model: the constructors of godot.node, godot.graph,           *)
(* godot.subgraph and godot.cluster, and of godot.edge.                    *)

\* Node(ID=..., **traits)
Node(ID_, traits) == [ty |-> "Node", ID |-> ID_, traits |-> traits]

\* the container classes: four element lists, and the attributes set on
\* the object (attrs)
BaseGraph(cls, ID_) ==
    [ty |-> cls, ID |-> ID_, nodes |-> <<>>, edges |-> <<>>,
     subgraphs |-> <<>>, clusters |-> <<>>, attrs |-> EmptyDict]

Subgraph(ID_) == BaseGraph("Subgraph", ID_)

Cluster(ID_) == BaseGraph("Cluster", ID_)

\* godot.graph.Graph(ID=..., strict=..., directed=...)
Graph(ID_, strict_, directed_) ==
    [ty |-> "Graph", ID |-> ID_, strict |-> strict_, directed |-> directed_,
     nodes |-> <<>>, edges |-> <<>>, subgraphs |-> <<>>, clusters |-> <<>>,
     attrs |-> EmptyDict]

\* the truth value of a Python value (if directed:)
Truthy(x) ==
    CASE x.ty = "bool" -> x.v
      [] x.ty = "str" -> x.v # ""
      [] x.ty = "None" -> FALSE
      [] OTHER -> TRUE

\* Edge.__init__(self, tailnode_or_ID, headnode_or_ID, directed=False, **traits)
Edge(tailnode_or_ID, headnode_or_ID, directed_, traits) ==
    LET tail_node == IF ~isinstance(tailnode_or_ID, "Node")
                     THEN Node(tailnode_or_ID, EmptyDict)
                     ELSE tailnode_or_ID
        head_node == IF ~isinstance(headnode_or_ID, "Node")
                     THEN Node(headnode_or_ID, EmptyDict)
                     ELSE headnode_or_ID
    IN  [ty |-> "Edge", tail_node |-> tail_node, head_node |-> head_node,
         conn |-> IF Truthy(directed_) THEN "->" ELSE "--",
         traits |-> traits]

\* the call Edge(tail_node, head_node, **opts): a key "directed" of opts
\* binds the parameter directed, every other key is a trait
EdgeCall(tail_node, head_node, opts) ==
    Edge(tail_node, head_node,
         IF "directed" \in DOMAIN opts THEN opts["directed"] ELSE Bool(FALSE),
         [k \in (DOMAIN opts) \ {"directed"} |-> opts[k]])

---------------------------------------------------------------------------
(* The helpers of parsing_util the parse actions call.                     *)

\* nsplit(seq, n): the successive n-tuples of seq
nsplit(seq, n) ==
    [i \in 1..(Len(seq) \div n) |-> Tuple(SubSeq(seq, (i - 1) * n + 1, i * n))]

\* windows(iterable, length, overlap, padding): the windows of `length`
\* items, each starting length - overlap items after the one before; with
\* padding a last short window is filled up with None
windows(seq, length, overlap, padding) ==
    LET step == length - overlap
        full == IF Len(seq) < length THEN 0 ELSE ((Len(seq) - length) \div step) + 1
        rest == SubSeq(seq, full * step + 1, Len(seq))
        short == padding /\ rest # <<>> /\ (full = 0 \/ Len(rest) > overlap)
    IN  [i \in 1..full |-> SubSeq(seq, (i - 1) * step + 1, (i - 1) * step + length)]
        \o (IF short
            THEN <<rest \o [j \in 1..(length - Len(rest)) |-> None]>>
            ELSE <<>>)

\* dict(pairs): a later pair with the same key replaces an earlier one
dict(pairs) ==
    [k \in {pairs[i].v[1].v : i \in 1..Len(pairs)} |->
        LET last == CHOOSE i \in 1..Len(pairs) :
                        /\ pairs[i].v[1].v = k
                        /\ \A j \in (i + 1)..Len(pairs) : pairs[j].v[1].v # k
        IN  pairs[last].v[2]]

---------------------------------------------------------------------------
(* Parse actions (the _proc_ methods of DotParser).  tokens is the token   *)
(* list of the match and names its results names.                         *)

\* _proc_strict that reads the token under the results name "strict"
_proc_strict_keyed(tokens, names) ==
    IF "strict" \in DOMAIN names THEN Bool(names["strict"] = Str("strict"))
    ELSE Raise("KeyError")

_proc_strict(tokens, names) == Bool("strict" \in DOMAIN names)

_proc_directed(tokens, names) == Bool(names["directed"] = Str("digraph"))

_proc_attr_assignment(tokens) == List(nsplit(tokens, 2))

_proc_node_id(tokens) ==
    IF Len(tokens) > 1
    THEN Tuple(<<tokens[1], tokens[2]>>)
    ELSE Results(tokens)

_proc_attr_list(tokens) == Dict(dict(nsplit(tokens, 2)))

RECURSIVE UpdateAll(_, _, _)
\* for d in tokens: first_dict.update(d)
UpdateAll(first_dict, tokens, i) ==
    IF i > Len(tokens) THEN first_dict
    ELSE UpdateAll(DictUpdate(first_dict, tokens[i].v), tokens, i + 1)

\* _proc_attr_list_combine that returns the first dictionary as it is
_proc_attr_list_combine_first(tokens) ==
    IF tokens # <<>> THEN tokens[1] ELSE Results(tokens)

_proc_attr_list_combine(tokens) ==
    IF tokens # <<>>
    THEN Dict(UpdateAll(tokens[1].v, tokens, 1))
    ELSE Results(tokens)

\* _proc_node_stmt that leaves the attribute list of the statement out
_proc_node_stmt_bare(tokens, names) ==
    IF "ID" \notin DOMAIN names THEN Raise("KeyError")
    ELSE Node(IF isinstance(names["ID"], "tuple") THEN names["ID"].v[1]
              ELSE names["ID"], EmptyDict)

_proc_node_stmt(tokens, names) ==
    IF "ID" \notin DOMAIN names THEN Raise("KeyError")
    ELSE
    LET tid == names["ID"]
        node_id == IF isinstance(tid, "tuple") THEN tid.v[1] ELSE tid
    IN  IF Len(tokens) = 2
        THEN LET opts == tokens[2]
             IN  IF isinstance(opts, "dict")
                 THEN Node(node_id, opts.v)
                 ELSE Raise("TypeError")
        ELSE Node(node_id, EmptyDict)

RECURSIVE EdgeLoop_attr_first(_, _, _, _)
\* the loop of _proc_edge_stmt in which a tailport or headport of the
\* attribute list stays when the endpoint has an inline port
EdgeLoop_attr_first(ws, i, opts, edgelist) ==
    IF i > Len(ws) THEN edgelist
    ELSE
    LET src == ws[i][1]
        dst == ws[i][2]
        opts1 == IF isinstance(src, "tuple")
                 THEN DictUpdate("tailport" :> src.v[2], opts) ELSE opts
        src1 == IF isinstance(src, "tuple") THEN src.v[1] ELSE src
        opts2 == IF isinstance(dst, "tuple")
                 THEN DictUpdate("headport" :> dst.v[2], opts1) ELSE opts1
        dst1 == IF isinstance(dst, "tuple") THEN dst.v[1] ELSE dst
    IN  EdgeLoop_attr_first(ws, i + 1, opts2,
            Append(edgelist, EdgeCall(Node(src1, EmptyDict), Node(dst1, EmptyDict),
                                      opts2)))

RECURSIVE EdgeLoop(_, _, _, _)
\* the loop of _proc_edge_stmt over the windows ws from window i on: opts
\* is the one dictionary all iterations write to
EdgeLoop(ws, i, opts, edgelist) ==
    IF i > Len(ws) THEN edgelist
    ELSE
    LET src == ws[i][1]
        dst == ws[i][2]
        opts1 == IF isinstance(src, "tuple")
                 THEN DictUpdate(opts, "tailport" :> src.v[2]) ELSE opts
        src1 == IF isinstance(src, "tuple") THEN src.v[1] ELSE src
        opts2 == IF isinstance(dst, "tuple")
                 THEN DictUpdate(opts1, "headport" :> dst.v[2]) ELSE opts1
        dst1 == IF isinstance(dst, "tuple") THEN dst.v[1] ELSE dst
        tail_node == Node(src1, EmptyDict)
        head_node == Node(dst1, EmptyDict)
        edge == EdgeCall(tail_node, head_node, opts2)
    IN  EdgeLoop(ws, i + 1, opts2, Append(edgelist, edge))

\* _proc_edge_stmt with windows that do not overlap
_proc_edge_stmt_disjoint(tokens) ==
    LET last == tokens[Len(tokens)]
        opts == IF ~isinstance(last, "dict") THEN EmptyDict ELSE last.v
        toks == IF ~isinstance(last, "dict") THEN tokens
                ELSE SubSeq(tokens, 1, Len(tokens) - 1)
    IN  List(EdgeLoop(windows(toks, 2, 0, FALSE), 1, opts, <<>>))

_proc_edge_stmt(tokens) ==
    LET last == tokens[Len(tokens)]
        opts == IF ~isinstance(last, "dict") THEN EmptyDict ELSE last.v
        toks == IF ~isinstance(last, "dict") THEN tokens
                ELSE SubSeq(tokens, 1, Len(tokens) - 1)
    IN  List(EdgeLoop(windows(toks, 2, 1, FALSE), 1, opts, <<>>))

_proc_default_attr_stmt(toks) ==
    LET gtype == IF Len(toks) = 1 THEN Results(toks) ELSE toks[1]
        attr == IF Len(toks) = 1 THEN Dict(EmptyDict) ELSE toks[2]
    IN  IF gtype = Str("node") THEN Tuple(<<Str("set_def_node_attr"), attr>>)
        ELSE IF gtype = Str("edge") THEN Tuple(<<Str("set_def_edge_attr"), attr>>)
        ELSE IF gtype = Str("graph") THEN Tuple(<<Str("set_def_graph_attr"), attr>>)
        ELSE Tuple(<<Str("unknown"), Results(toks)>>)

\* one pass of the loop of _populate_graph in which the nodes of a nested
\* container take over the node defaults of the container they are put in
PopulateStep_inherit(graph, element) ==
    IF isinstance(element, "Subgraph") \/ isinstance(element, "Cluster")
    THEN LET nested == IF "set_def_node_attr" \in DOMAIN graph.attrs
                       THEN [element EXCEPT !.nodes =
                               [i \in 1..Len(element.nodes) |->
                                  Node(element.nodes[i].ID,
                                       DictUpdate(graph.attrs["set_def_node_attr"].v,
                                                  element.nodes[i].traits))]]
                       ELSE element
         IN  IF isinstance(element, "Subgraph")
             THEN [graph EXCEPT !.subgraphs = Append(@, nested)]
             ELSE [graph EXCEPT !.clusters = Append(@, nested)]
    ELSE IF isinstance(element, "Node")
    THEN [graph EXCEPT !.nodes = Append(@, element)]
    ELSE IF isinstance(element, "Edge")
    THEN [graph EXCEPT !.edges = Append(@, element)]
    ELSE IF isinstance(element, "tuple")
    THEN [graph EXCEPT !.attrs = DictUpdate(@, element.v[1].v :> element.v[2])]
    ELSE graph

\* one pass of the loop of _populate_graph that puts the element in front
\* of its collection instead of behind it
PopulateStep_front(graph, element) ==
    IF isinstance(element, "Subgraph")
    THEN [graph EXCEPT !.subgraphs = <<element>> \o @]
    ELSE IF isinstance(element, "Cluster")
    THEN [graph EXCEPT !.clusters = <<element>> \o @]
    ELSE IF isinstance(element, "Node")
    THEN [graph EXCEPT !.nodes = <<element>> \o @]
    ELSE IF isinstance(element, "Edge")
    THEN [graph EXCEPT !.edges = <<element>> \o @]
    ELSE IF isinstance(element, "tuple")
    THEN [graph EXCEPT !.attrs = DictUpdate(@, element.v[1].v :> element.v[2])]
    ELSE graph

\* one pass of the loop of _populate_graph that also puts the endpoints of
\* an Edge into the nodes of the container
PopulateStep_endpoints(graph, element) ==
    IF isinstance(element, "Subgraph")
    THEN [graph EXCEPT !.subgraphs = Append(@, element)]
    ELSE IF isinstance(element, "Cluster")
    THEN [graph EXCEPT !.clusters = Append(@, element)]
    ELSE IF isinstance(element, "Node")
    THEN [graph EXCEPT !.nodes = Append(@, element)]
    ELSE IF isinstance(element, "Edge")
    THEN [graph EXCEPT !.edges = Append(@, element),
                       !.nodes = @ \o <<element.tail_node, element.head_node>>]
    ELSE IF isinstance(element, "tuple")
    THEN [graph EXCEPT !.attrs = DictUpdate(@, element.v[1].v :> element.v[2])]
    ELSE graph

\* one pass of the loop of _populate_graph that also puts the nodes and
\* edges of a Subgraph or Cluster into the container it is added to
PopulateStep_hoist(graph, element) ==
    IF isinstance(element, "Subgraph")
    THEN [graph EXCEPT !.subgraphs = Append(@, element),
                       !.nodes = @ \o element.nodes,
                       !.edges = @ \o element.edges]
    ELSE IF isinstance(element, "Cluster")
    THEN [graph EXCEPT !.clusters = Append(@, element),
                       !.nodes = @ \o element.nodes,
                       !.edges = @ \o element.edges]
    ELSE IF isinstance(element, "Node")
    THEN [graph EXCEPT !.nodes = Append(@, element)]
    ELSE IF isinstance(element, "Edge")
    THEN [graph EXCEPT !.edges = Append(@, element)]
    ELSE IF isinstance(element, "tuple")
    THEN [graph EXCEPT !.attrs = DictUpdate(@, element.v[1].v :> element.v[2])]
    ELSE graph

\* one pass of the loop of _populate_graph
PopulateStep(graph, element) ==
    IF isinstance(element, "Subgraph")
    THEN [graph EXCEPT !.subgraphs = Append(@, element)]
    ELSE IF isinstance(element, "Cluster")
    THEN [graph EXCEPT !.clusters = Append(@, element)]
    ELSE IF isinstance(element, "Node")
    THEN [graph EXCEPT !.nodes = Append(@, element)]
    ELSE IF isinstance(element, "Edge")
    THEN [graph EXCEPT !.edges = Append(@, element)]
    ELSE IF isinstance(element, "tuple")
    THEN [graph EXCEPT !.attrs = DictUpdate(@, element.v[1].v :> element.v[2])]
    ELSE graph

RECURSIVE PopulateFrom(_, _, _)
PopulateFrom(graph, elements, i) ==
    IF i > Len(elements) THEN graph
    ELSE PopulateFrom(PopulateStep(graph, elements[i]), elements, i + 1)

_populate_graph(graph, elements) == PopulateFrom(graph, elements, 1)

\* _proc_subgraph_stmt that compares the prefix of the ID as it is spelled
_proc_subgraph_stmt_cased(tokens, names) ==
    IF "ID" \notin DOMAIN names \/ "subgraph_stmt" \notin DOMAIN names
    THEN Raise("KeyError")
    ELSE _populate_graph(IF Prefix(Spell(names["ID"].v), 7) = Spell("cluster")
                         THEN Cluster(names["ID"])
                         ELSE Subgraph(names["ID"]),
                         names["subgraph_stmt"].v)

_proc_subgraph_stmt(tokens, names) ==
    IF "ID" \notin DOMAIN names \/ "subgraph_stmt" \notin DOMAIN names
    THEN Raise("KeyError")
    ELSE
    LET ID_ == names["ID"]
        subgraph_ == IF lower(Prefix(Spell(ID_.v), 7)) = Spell("cluster")
                     THEN Cluster(ID_)
                     ELSE Subgraph(ID_)
    IN  _populate_graph(subgraph_, names["subgraph_stmt"].v)

_proc_main_graph(tokens, names) ==
    IF {"ID", "strict", "directed", "stmt_list"} \ (DOMAIN names) # {}
    THEN Raise("KeyError")
    ELSE _populate_graph(Graph(names["ID"], names["strict"], names["directed"]),
                         names["stmt_list"].v)

---------------------------------------------------------------------------
(* The grammar of DotParser.define_parser.                                 *)

\* the attribute vocabularies of parsing_util (names only)
graph_attr == {"label", "rankdir"}
node_attr == {"color", "shape", "label"}
edge_attr == {"color", "label", "tailport", "headport"}
all_attr == graph_attr \cup node_attr \cup edge_attr

\* the value expression of an attribute
attr(s, loc) ==
    IF identifier(tok(s, loc))
    THEN Match(loc + 1, <<Str(tok(s, loc))>>, NoNames)
    ELSE NoMatch

\* lambda t: "<<%s>>" % "".join(t[0])
html_text_action(joined) == "<<" \o joined \o ">>"

RECURSIVE html_text_items(_, _, _), html_text_nested(_, _, _), html_text(_, _)
\* ZeroOrMore(ignoreExpr | ret | content) + Suppress(closer) of nestedExpr:
\* content is CharsNotIn("<>"), ret the nested expression with its action;
\* acc is the join of the items so far
html_text_items(s, loc, acc) ==
    IF tok(s, loc) = ">"
    THEN Match(loc + 1, <<Str(html_text_action(acc))>>, NoNames)
    ELSE IF tok(s, loc) = "<"
    THEN html_text_nested(s, html_text(s, loc), acc)
    ELSE IF tok(s, loc) = EOF
    THEN NoMatch
    ELSE html_text_items(s, loc + 1, acc \o tok(s, loc))

\* a nested expression matched as m is one item of the enclosing one
html_text_nested(s, m, acc) ==
    IF m.st = "match"
    THEN html_text_items(s, m.loc, acc \o m.toks[1].v)
    ELSE NoMatch

\* html_text = nestedExpr("<", ">", CharsNotIn("<>")).setParseAction(...)
html_text(s, loc) ==
    IF tok(s, loc) = "<" THEN html_text_items(s, loc + 1, "") ELSE NoMatch

\* html_text matched as m, under the results name of ID
ID_html_text(m) ==
    IF m.st = "match" THEN Match(m.loc, m.toks, "ID" :> m.toks[1]) ELSE NoMatch

\* ID = (identifier | html_text | quoted_string | alphastring_)
ID(s, loc) ==
    IF identifier(tok(s, loc)) \/ alphastring_(tok(s, loc))
    THEN Match(loc + 1, <<Str(tok(s, loc))>>, "ID" :> Str(tok(s, loc)))
    ELSE ID_html_text(html_text(s, loc))

\* port_angle = at + ID
port_angle(s, loc) ==
    IF tok(s, loc) = "@" /\ ID(s, loc + 1).st = "match"
    THEN Match(loc + 2, <<Str("@"), Str(tok(s, loc + 1))>>, NoNames)
    ELSE NoMatch

RECURSIVE colon_IDs(_, _, _, _)
\* OneOrMore(Group(colon + ID)): acc holds the lexemes of n groups
colon_IDs(s, loc, acc, n) ==
    IF tok(s, loc) = ":" /\ ID(s, loc + 1).st = "match"
    THEN colon_IDs(s, loc + 2, acc \o <<Str(":"), Str(tok(s, loc + 1))>>, n + 1)
    ELSE OneOrMore(loc, acc, n)

\* Group(colon + lparen + ID + comma + ID + rparen)
port_pair(s, loc) ==
    IF /\ tok(s, loc) = ":" /\ tok(s, loc + 1) = "("
       /\ ID(s, loc + 2).st = "match" /\ tok(s, loc + 3) = ","
       /\ ID(s, loc + 4).st = "match" /\ tok(s, loc + 5) = ")"
    THEN Match(loc + 6, [i \in 1..6 |-> Str(tok(s, loc + i - 1))], NoNames)
    ELSE NoMatch

\* port_location = OneOrMore(Group(colon + ID)) |
\*                 Group(colon + lparen + ID + comma + ID + rparen)
port_location(s, loc) == MatchFirst(colon_IDs(s, loc, <<>>, 0), port_pair(s, loc))

\* Group(port_location + Optional(port_angle)), pl the port_location
port_location_angle(s, pl) == And(pl, Optional(pl.loc, port_angle(s, pl.loc)))

\* Group(port_angle + Optional(port_location)), pa the port_angle
port_angle_location(s, pa) == And(pa, Optional(pa.loc, port_location(s, pa.loc)))

\* port = Combine(Group(port_location + Optional(port_angle)) |
\*                Group(port_angle + Optional(port_location)))
port(s, loc) ==
    Combine(MatchFirst(port_location_angle(s, port_location(s, loc)),
                       port_angle_location(s, port_angle(s, loc))))

\* node_id.setParseAction(self._proc_node_id)
node_id_action(m) == ParseAction(m, _proc_node_id(m.toks), "node_id")

\* ID + Optional(port), i the ID
node_id_port(s, i) == node_id_action(And(i, Optional(i.loc, port(s, i.loc))))

\* node_id = (ID + Optional(port)).setResultsName("node_id")
node_id(s, loc) == node_id_port(s, ID(s, loc))

\* Optional(equals.suppress() + attr, True)
a_list_value(s, loc) ==
    IF tok(s, loc) = "=" /\ attr(s, loc + 1).st = "match"
    THEN attr(s, loc + 1)
    ELSE Match(loc, <<Bool(TRUE)>>, NoNames)

\* the name of all_attr that CaselessLiteral matches at loc
attr_name(s, loc) == CHOOSE a \in all_attr : lower(Spell(tok(s, loc))) = Spell(a)

RECURSIVE a_list_items(_, _, _, _), a_list_item(_, _, _, _)
\* the repetition of a_list: Or([...]) over the names of all_attr at loc
a_list_items(s, loc, acc, n) ==
    IF \E a \in all_attr : lower(Spell(tok(s, loc))) = Spell(a)
    THEN a_list_item(s, acc, n,
                     And(CaselessLiteral(s, loc, attr_name(s, loc), ""),
                         a_list_value(s, loc + 1)))
    ELSE OneOrMore(loc, acc, n)

\* CaselessLiteral(name) + Optional(equals.suppress() + attr, True) matched
\* as m: Optional(comma.suppress()) and the next repetition
a_list_item(s, acc, n, m) ==
    a_list_items(s, Optional(m.loc, Suppress(s, m.loc, ",")).loc,
                 acc \o m.toks, n + 1)

\* a_list.setParseAction(self._proc_attr_list)
a_list_action(m) == ParseAction(m, _proc_attr_list(m.toks), "")

\* a_list = OneOrMore(Or([...]))
a_list(s, loc) == a_list_action(a_list_items(s, loc, <<>>, 0))

RECURSIVE attr_list_groups(_, _, _, _), attr_list_group(_, _, _, _, _)
\* the repetition of attr_list: n bracket groups matched so far
attr_list_groups(s, loc, acc, n) ==
    IF tok(s, loc) = "["
    THEN attr_list_group(s, loc, acc, n, Optional(loc + 1, a_list(s, loc + 1)))
    ELSE OneOrMore(loc, acc, n)

\* lbrack.suppress() + Optional(a_list) matched as a: rbrack.suppress() and
\* the next repetition
attr_list_group(s, loc, acc, n, a) ==
    IF tok(s, a.loc) = "]"
    THEN attr_list_groups(s, a.loc + 1, acc \o a.toks, n + 1)
    ELSE OneOrMore(loc, acc, n)

\* attr_list.setParseAction(self._proc_attr_list_combine)
attr_list_action(m) == ParseAction(m, _proc_attr_list_combine(m.toks), "attrlist")

\* attr_list = OneOrMore(lbrack.suppress() + Optional(a_list) +
\*                       rbrack.suppress()).setResultsName("attrlist")
attr_list(s, loc) == attr_list_action(attr_list_groups(s, loc, <<>>, 0))

\* attr_stmt.setParseAction(self._proc_default_attr_stmt)
attr_stmt_action(m) == ParseAction(m, _proc_default_attr_stmt(m.toks), "")

\* (graph_ | node_ | edge_) + attr_list, kw the keyword
attr_stmt_list(s, kw) == attr_stmt_action(And(kw, attr_list(s, kw.loc)))

\* attr_stmt = (graph_ | node_ | edge_) + attr_list
attr_stmt(s, loc) ==
    attr_stmt_list(s, MatchFirst(CaselessLiteral(s, loc, "graph", "directed"),
                      MatchFirst(CaselessLiteral(s, loc, "node", "node"),
                                 CaselessLiteral(s, loc, "edge", "edge"))))

\* edgeop = Suppress((Literal("--") | Literal("->")))
edgeop(s, loc) == MatchFirst(Suppress(s, loc, "--"), Suppress(s, loc, "->"))

RECURSIVE edgeRHS_items(_, _, _, _), edgeRHS_item(_, _, _, _, _)
\* edgeRHS = OneOrMore(edgeop + edge_point), edge_point << node_id
edgeRHS_items(s, loc, acc, n) ==
    edgeRHS_item(s, loc, acc, n, And(edgeop(s, loc), node_id(s, loc + 1)))

\* one repetition of edgeRHS, m the result of edgeop + edge_point at loc
edgeRHS_item(s, loc, acc, n, m) ==
    IF m.st = "match"
    THEN edgeRHS_items(s, m.loc, acc \o m.toks, n + 1)
    ELSE OneOrMore(loc, acc, n)

\* edge_stmt.setParseAction(self._proc_edge_stmt)
edge_stmt_action(m) == ParseAction(m, _proc_edge_stmt(m.toks), "")

\* edge_point + edgeRHS matched as m: Optional(attr_list)
edge_stmt_attrs(s, m) ==
    edge_stmt_action(And(m, Optional(m.loc, attr_list(s, m.loc))))

\* edge_point matched as e1: edgeRHS
edge_stmt_RHS(s, e1) ==
    edge_stmt_attrs(s, And(e1, edgeRHS_items(s, e1.loc, <<>>, 0)))

\* edge_stmt = edge_point + edgeRHS + Optional(attr_list)
edge_stmt(s, loc) == edge_stmt_RHS(s, node_id(s, loc))

\* node_stmt.setParseAction(self._proc_node_stmt)
node_stmt_action(m) == ParseAction(m, _proc_node_stmt(m.toks, m.names), "")

\* node_id + Optional(attr_list) matched as m: Optional(semi.suppress())
node_stmt_semi(s, m) ==
    node_stmt_action(And(m, Optional(m.loc, Suppress(s, m.loc, ";"))))

\* node_id matched as n: Optional(attr_list)
node_stmt_attrs(s, n) ==
    node_stmt_semi(s, And(n, Optional(n.loc, attr_list(s, n.loc))))

\* node_stmt = node_id + Optional(attr_list) + Optional(semi.suppress())
node_stmt(s, loc) == node_stmt_attrs(s, node_id(s, loc))

\* assignment.setParseAction(self._proc_attr_assignment)
assignment_action(m) == ParseAction(m, _proc_attr_assignment(m.toks), "assignment")

\* assignment = Or([CaselessLiteral(name) + Suppress(equals) + attr
\*                  for attr in graph_attr]).setResultsName("assignment")
assignment(s, loc) ==
    IF \E a \in graph_attr : lower(Spell(tok(s, loc))) = Spell(a)
    THEN assignment_action(
             And(CaselessLiteral(s, loc, attr_name(s, loc), ""),
                 And(Suppress(s, loc + 1, "="), attr(s, loc + 2))))
    ELSE NoMatch

RECURSIVE stmt_list_items(_, _, _, _), stmt_list_item(_, _, _, _, _), stmt(_, _),
          subgraph(_, _), graph_stmt(_, _)

\* stmt_list << OneOrMore(stmt + Optional(semi.suppress()))
stmt_list_items(s, loc, acc, n) == stmt_list_item(s, loc, acc, n, stmt(s, loc))

\* one repetition of stmt_list, m the result of stmt at loc
stmt_list_item(s, loc, acc, n, m) ==
    IF m.st = "raise" THEN m
    ELSE IF m.st = "nomatch" THEN OneOrMore(loc, acc, n)
    ELSE stmt_list_items(s, Optional(m.loc, Suppress(s, m.loc, ";")).loc,
                         acc \o m.toks, n + 1)

stmt_list(s, loc) == stmt_list_items(s, loc, <<>>, 0)

\* Suppress(lbrace) + Optional(stmt_list) matched as b: Suppress(rbrace) +
\* Optional(semi.suppress()), and the results name the body has in subgraph
graph_stmt_rbrace(s, b) ==
    IF b.st # "match" THEN b
    ELSE IF tok(s, b.loc) # "}" THEN NoMatch
    ELSE Match(Optional(b.loc + 1, Suppress(s, b.loc + 1, ";")).loc, b.toks,
               "subgraph_stmt" :> Results(b.toks))

\* graph_stmt = Suppress(lbrace) + Optional(stmt_list) + Suppress(rbrace) +
\*              Optional(semi.suppress())
graph_stmt(s, loc) ==
    IF tok(s, loc) # "{" THEN NoMatch
    ELSE graph_stmt_rbrace(s, Optional(loc + 1, stmt_list(s, loc + 1)))

\* subgraph.setParseAction(self._proc_subgraph_stmt)
subgraph_action(m) == ParseAction(m, _proc_subgraph_stmt(m.toks, m.names), "")

\* Optional(ID, "") matched as i: graph_stmt.setResultsName("subgraph_stmt")
subgraph_stmt(s, i) == subgraph_action(And(i, graph_stmt(s, i.loc)))

\* subgraph = Suppress(subgraph_) + Optional(ID, "") +
\*            graph_stmt.setResultsName("subgraph_stmt")
subgraph(s, loc) ==
    IF CaselessLiteral(s, loc, "subgraph", "subgraph_").st # "match" THEN NoMatch
    ELSE subgraph_stmt(s, MatchFirst(ID(s, loc + 1),
                                     Match(loc + 1, <<Str("")>>, "ID" :> Str(""))))

\* stmt = assignment | edge_stmt | attr_stmt | subgraph | node_stmt
stmt(s, loc) ==
    MatchFirst(assignment(s, loc),
    MatchFirst(edge_stmt(s, loc),
    MatchFirst(attr_stmt(s, loc),
    MatchFirst(subgraph(s, loc),
               node_stmt(s, loc)))))

\* strict.setParseAction(self._proc_strict)
strict_action(m) == ParseAction(m, _proc_strict(m.toks, m.names), "strict")

\* strict = Optional(strict_).setResultsName("strict")
strict(s, loc) ==
    strict_action(Optional(loc, CaselessLiteral(s, loc, "strict", "strict")))

\* directed.setParseAction(self._proc_directed)
directed_action(m) == ParseAction(m, _proc_directed(m.toks, m.names), "directed")

\* directed = (graph_ | digraph_).setResultsName("directed")
directed(s, loc) ==
    directed_action(MatchFirst(CaselessLiteral(s, loc, "graph", "directed"),
                               CaselessLiteral(s, loc, "digraph", "directed")))

\* graphparser.setParseAction(self._proc_main_graph)
graphparser_action(m) == ParseAction(m, _proc_main_graph(m.toks, m.names), "")

\* ... + Group(Optional(stmt_list)) matched as m: Suppress(rbrace)
graphparser_rbrace(s, m) == graphparser_action(And(m, Suppress(s, m.loc, "}")))

\* ... + Suppress(lbrace) matched as m:
\* Group(Optional(stmt_list)).setResultsName("stmt_list")
graphparser_stmt_list(s, m) ==
    graphparser_rbrace(s,
        And(m, Group(Optional(m.loc, stmt_list(s, m.loc)), "stmt_list")))

\* strict + directed + Optional(ID) matched as m: Suppress(lbrace)
graphparser_lbrace(s, m) == graphparser_stmt_list(s, And(m, Suppress(s, m.loc, "{")))

\* strict + directed matched as m: Optional(ID)
graphparser_ID(s, m) == graphparser_lbrace(s, And(m, Optional(m.loc, ID(s, m.loc))))

\* strict matched as m: directed
graphparser_directed(s, m) == graphparser_ID(s, And(m, directed(s, m.loc)))

\* graphparser = strict + directed + Optional(ID) + Suppress(lbrace) +
\*     Group(Optional(stmt_list)).setResultsName("stmt_list") + Suppress(rbrace)
graphparser(s, loc) == graphparser_directed(s, strict(s, loc))

\* the lexemes cppStyleComment matches (a // line and a /* */ block) and
\* the lexeme preprocessorOutput = Group("#" + restOfLine) matches
cppStyleComment == {"// c", "/* c */"}
preprocessorOutput == {"# 1"}

\* a text with block comments only taken out
skipIgnorables_block(s) == SelectSeq(s, LAMBDA t : t # "/* c */")

\* graphparser.ignore(preprocessorOutput), graphparser.ignore(cppStyleComment):
\* the ignore expressions are handed down to every expression of the
\* grammar and skipped in front of each, so the grammar reads the text
\* without the lexemes they match
skipIgnorables(s) ==
    SelectSeq(s, LAMBDA t : t \notin cppStyleComment \cup preprocessorOutput)

\* parser.parseString(data): the match from the start of the text; what
\* follows the match is not looked at (parseAll is not set).  loc counts
\* the lexemes that are not ignored
parseString(s) == graphparser(skipIgnorables(s), 1)

---------------------------------------------------------------------------
(* The documents of the model.  A caller writes a DOT text: a header,      *)
(* statements of one vocabulary, the closing brace and perhaps more text.  *)
(* It may hand the text to parse_dot_data at any point.                    *)

Vocabs == {"headers", "nodes", "edges", "scopes", "comments", "attrs", "blocks",
           "edgedefaults", "graphattrs", "ports", "chains", "html",
           "emptylists"}

\* the headers: [strict] (graph | digraph) [ID] "{", keywords in any case
Headers(v) ==
    IF v = "headers"
    THEN {st \o <<kw>> \o id \o <<"{">> :
            st \in {<<>>, <<"strict">>, <<"STRICT">>},
            kw \in {"graph", "digraph", "GRAPH", "DiGraph"},
            id \in {<<>>, <<"G">>}}
    ELSE {<<"graph", "G", "{">>, <<"digraph", "G", "{">>}

\* the statements of a vocabulary
Statements(v) ==
    CASE v = "headers" -> {}
      [] v = "nodes" ->
            { <<"a", ";">>,
              <<"b", "[", "color", "=", "green", "]", ";">>,
              <<"node", "[", "color", "=", "red", "]", ";">>,
              <<"node", "[", "color", "=", "blue", "]", ";">> }
      [] v = "edges" ->
            { <<"a", "->", "b", ";">>,
              <<"a", "->", "b", "->", "c", ";">>,
              <<"a", ":", "nw", "->", "b", "[", "tailport", "=", "e", "]", ";">>,
              <<"a", "--", "b", ":", "e", "[", "headport", "=", "nw", "]">>,
              <<"a", "->", ";">> }
      [] v = "scopes" ->
            { <<"a", ";">>,
              <<"a", "->", "b", ";">>,
              <<"node", "[", "color", "=", "red", "]", ";">>,
              <<"edge", "[", "color", "=", "red", "]", ";">>,
              <<"subgraph", "cluster_0", "{">>,
              <<"subgraph", "Cluster_1", "{">>,
              <<"subgraph", "sub_0", "{">> }
      [] v = "comments" ->
            { <<"a", ";">>,
              <<"a", "->", "b", ";">>,
              <<"// c">>,
              <<"/* c */">>,
              <<"# 1">> }
      [] v = "attrs" ->
            { <<"a", "[", "color", "=", "red", "]", "[", "shape", "=", "box", "]",
                     "[", "color", "=", "blue", "]", ";">>,
              <<"b", "[", "shape", "=", "box", ",", "color", "=", "red", "]",
                     "[", "]", "[", "shape", "=", "dot", "]", ";">>,
              <<"a", "[", "color", "=", "red", ",", "color", "=", "green", "]", ";">>,
              <<"b", "[", "foo", "=", "bar", "]", ";">>,
              <<"foo", "=", "bar", ";">> }
      [] v = "blocks" ->
            { <<"a", ";">>,
              <<"a", "->", "b", ";">>,
              <<"{">> }
      [] v = "edgedefaults" ->
            { <<"a", "->", "b", ";">>,
              <<"a", "->", "b", "[", "color", "=", "green", "]", ";">>,
              <<"edge", "[", "color", "=", "red", "]", ";">>,
              <<"edge", "[", "color", "=", "blue", "]", ";">> }
      [] v = "graphattrs" ->
            { <<"a", ";">>,
              <<"label", "=", "x", ";">>,
              <<"graph", "[", "label", "=", "x", "]", ";">> }
      [] v = "ports" ->
            { <<"a", ";">>,
              <<"a", ":", "nw", ";">>,
              <<"b", ":", "p", ":", "nw", "[", "color", "=", "red", "]", ";">>,
              <<"b", "[", "color", "=", "red", "]", ";">> }
      [] v = "html" ->
            { <<"a", ";">>,
              <<"<", "a", ">", ";">>,
              <<"<", "a", "<", "b", ">", "c", ">", ";">>,
              <<"<", "<", "a", "<", "b", ">", ">", ">", ";">>,
              <<"<", "a", ";">> }
      [] v = "emptylists" ->
            { <<"a", ";">>,
              <<"node", "[", "]", ";">>,
              <<"edge", "[", "]", ";">>,
              <<"graph", "[", "]", ";">>,
              <<"node", "[", "color", "=", "red", "]", ";">> }
      [] v = "chains" ->
            { <<"a", ":", "nw", "->", "b", "->", "c",
                "[", "tailport", "=", "s", ",", "headport", "=", "e", "]", ";">>,
              <<"a", "->", "b", ":", "nw", "->", "c", ";">>,
              <<"a", "->", "b", "->", "c", ":", "e", ";">>,
              <<"a", "->", "b", "[", "tailport", "=", "s", "]", ";">> }

\* the text that may follow the closing brace of the graph
Trailers == { <<>>, <<"}">>, <<"b", ";">>, <<"a", "->", ";">> }

Count(s, c) == Cardinality({i \in 1..Len(s) : s[i] = c})

\* the number of subgraph bodies open at the end of the text
Depth(s) == Count(s, "{") - Count(s, "}") - 1

\* DotParser(): the instances; parser and graph are per instance
Parsers == 1..MaxParsers

RECURSIVE SumCalls(_)
SumCalls(n) == IF n = 0 THEN 0 ELSE calls[n] + SumCalls(n - 1)

\* calls of parse_dot_data on all instances
TotalCalls == SumCalls(MaxParsers)

\* MarketExperiment.__init__(tasks, agents, power_sys) with nAgents agents
\* and as many tasks
MarketExperiment(nAgents) ==
    /\ agents = nAgents
    /\ stepid = 0
    /\ phase = "idle"
    /\ number = 0
    /\ interaction = 0
    /\ pair = 0
    /\ rewards = <<>>
    /\ all_rewards = <<>>
    /\ acts = <<>>
    /\ statuses = <<>>
    /\ task_rewards = [a \in 1..nAgents |-> <<>>]
    /\ given = [a \in 1..nAgents |-> <<>>]
    /\ stepid0 = 0
    /\ runs = 0

Init ==
    /\ MarketExperiment(0)
    /\ data = <<>>
    /\ vocab \in Vocabs
    /\ nstmts = 0
    /\ pc = "header"
    /\ ret = None
    /\ exc = ""
    /\ self = 1
    /\ self_graph = [p \in Parsers |-> None]
    /\ calls = [p \in Parsers |-> 0]

ComposeHeader ==
    /\ pc = "header"
    /\ \E h \in Headers(vocab) : data' = h
    /\ pc' = "body"
    /\ UNCHANGED <<vocab, nstmts, ret, exc, self, self_graph, calls>>
    /\ UNCHANGED expVars

ComposeStmt ==
    /\ pc = "body"
    /\ nstmts < MaxStmts
    /\ \E st \in Statements(vocab) :
          /\ st[Len(st)] = "{" => Depth(data) < MaxDepth
          /\ data' = data \o st
    /\ nstmts' = nstmts + 1
    /\ UNCHANGED <<vocab, pc, ret, exc, self, self_graph, calls>>
    /\ UNCHANGED expVars

\* the closing brace of a subgraph body
ComposeShut ==
    /\ pc = "body"
    /\ Depth(data) > 0
    /\ data' = Append(data, "}")
    /\ UNCHANGED <<vocab, nstmts, pc, ret, exc, self, self_graph, calls>>
    /\ UNCHANGED expVars

\* the closing brace of the graph, and what follows it
ComposeClose ==
    /\ pc = "body"
    /\ Depth(data) = 0
    /\ \E tr \in Trailers : data' = data \o <<"}">> \o tr
    /\ pc' = "closed"
    /\ UNCHANGED <<vocab, nstmts, ret, exc, self, self_graph, calls>>
    /\ UNCHANGED expVars

\* parse_dot_data that keeps the first Graph it built in self.graph and
\* returns the kept Graph from then on
parse_dot_data_return_kept(tokens) ==
    IF tokens.st = "match"
    THEN /\ self_graph' = [self_graph EXCEPT
                 ![self] = IF @ = None THEN tokens.toks[1] ELSE @]
         /\ ret' = self_graph'[self]
         /\ exc' = ""
         /\ pc' = "returned"
    ELSE /\ ret' = None
         /\ exc' = tokens.exc
         /\ pc' = "raised"
         /\ self_graph' = self_graph

\* return tokens[0], or the exception parseString raised; self.graph is
\* not assigned (the assignment is commented out)
parse_dot_data_return(tokens) ==
    IF tokens.st = "match"
    THEN /\ ret' = tokens.toks[1]
         /\ exc' = ""
         /\ pc' = "returned"
         /\ self_graph' = self_graph
    ELSE /\ ret' = None
         /\ exc' = tokens.exc
         /\ pc' = "raised"
         /\ self_graph' = self_graph

\* DotParser.parse_dot_data(data)
parse_dot_data ==
    /\ pc \in {"header", "body", "closed"}
    /\ parse_dot_data_return(parseString(data))
    /\ calls' = [calls EXCEPT ![self] = @ + 1]
    /\ UNCHANGED <<data, vocab, nstmts, self>>
    /\ UNCHANGED expVars

\* the caller is done with the result and writes another document, for
\* the same DotParser or for another one
NextDocument ==
    /\ pc \in {"returned", "raised"}
    /\ TotalCalls < MaxCalls
    /\ self' \in Parsers
    /\ data' = <<>>
    /\ vocab' \in Vocabs
    /\ nstmts' = 0
    /\ pc' = "header"
    /\ ret' = None
    /\ exc' = ""
    /\ UNCHANGED <<self_graph, calls>>
    /\ UNCHANGED expVars

Next ==
    \/ ComposeHeader
    \/ ComposeStmt
    \/ ComposeShut
    \/ ComposeClose
    \/ parse_dot_data
    \/ NextDocument

Spec == Init /\ [][Next]_vars

---------------------------------------------------------------------------
(* MarketExperiment.doInteractions.  The agents, the tasks and the         *)
(* DCOPFRoutine are outside the program: a task's reward and the status of *)
(* a solution are any value of a small set.                                *)

\* task.getReward()
Rewards == {0, 1}

\* solution["status"]
Statuses == {"optimal", "infeasible"}

\* doInteractions(number): all_rewards = [], and the outer loop is entered
\* unless range(number) is empty
doInteractions ==
    /\ phase \in {"idle", "returned"}
    /\ runs < MaxRuns
    /\ number' \in 0..MaxNumber
    /\ all_rewards' = <<>>
    /\ rewards' = <<>>
    /\ interaction' = 0
    /\ pair' = 0
    /\ acts' = <<>>
    /\ statuses' = <<>>
    /\ task_rewards' = [a \in 1..agents |-> <<>>]
    /\ given' = [a \in 1..agents |-> <<>>]
    /\ stepid0' = stepid
    /\ IF number' = 0
       THEN phase' = "returned" /\ runs' = runs + 1
       ELSE phase' = "act" /\ runs' = runs
    /\ UNCHANGED <<agents, stepid>>
    /\ UNCHANGED dotVars

\* a pass of the first inner loop that counts the interaction, not the
\* agent's action: stepid goes up once per interaction
performAction_once ==
    /\ phase = "act"
    /\ pair < agents
    /\ stepid' = (IF pair = 0 THEN stepid + 1 ELSE stepid)
    /\ acts' = Append(acts, [agent |-> pair + 1, task |-> pair + 1])
    /\ pair' = pair + 1
    /\ UNCHANGED <<agents, phase, number, interaction, rewards, all_rewards,
                   statuses, task_rewards, given, stepid0, runs>>
    /\ UNCHANGED dotVars

\* one pass of the first inner loop: self.stepid += 1,
\* agent.integrateObservation(task.getObservation()),
\* task.performAction(agent.getAction()) with task = self.tasks[i]
performAction ==
    /\ phase = "act"
    /\ pair < agents
    /\ stepid' = stepid + 1
    /\ acts' = Append(acts, [agent |-> pair + 1, task |-> pair + 1])
    /\ pair' = pair + 1
    /\ UNCHANGED <<agents, phase, number, interaction, rewards, all_rewards,
                   statuses, task_rewards, given, stepid0, runs>>
    /\ UNCHANGED dotVars

\* routine.solve() where a solution that is not optimal skips the rewards
\* of the interaction and goes on with the next one (continue for break)
solve_continue ==
    /\ phase = "act"
    /\ pair = agents
    /\ \E status \in Statuses :
          /\ statuses' = Append(statuses, status)
          /\ IF status # "optimal"
             THEN IF interaction + 1 < number
                  THEN /\ interaction' = interaction + 1
                       /\ pair' = 0
                       /\ acts' = <<>>
                       /\ phase' = "act"
                       /\ runs' = runs
                       /\ UNCHANGED rewards
                  ELSE /\ phase' = "returned"
                       /\ runs' = runs + 1
                       /\ UNCHANGED <<interaction, pair, rewards, acts>>
             ELSE /\ phase' = "reward"
                  /\ rewards' = <<>>
                  /\ pair' = 0
                  /\ runs' = runs
                  /\ UNCHANGED <<interaction, acts>>
    /\ UNCHANGED <<agents, stepid, number, all_rewards,
                   task_rewards, given, stepid0>>
    /\ UNCHANGED dotVars

\* routine.solve() inside the first inner loop: after any agent's action
solve_early ==
    /\ phase = "act"
    /\ pair >= 1
    /\ \E status \in Statuses :
          /\ statuses' = Append(statuses, status)
          /\ IF status # "optimal"
             THEN /\ phase' = "returned"
                  /\ runs' = runs + 1
                  /\ UNCHANGED <<pair, rewards>>
             ELSE /\ phase' = "reward"
                  /\ rewards' = <<>>
                  /\ pair' = 0
                  /\ runs' = runs
    /\ UNCHANGED <<agents, stepid, number, interaction, all_rewards, acts,
                   task_rewards, given, stepid0>>
    /\ UNCHANGED dotVars

\* routine.solve() after the first inner loop, and the break
solve ==
    /\ phase = "act"
    /\ pair = agents
    /\ \E status \in Statuses :
          /\ statuses' = Append(statuses, status)
          /\ IF status # "optimal"
             THEN /\ phase' = "returned"
                  /\ runs' = runs + 1
                  /\ UNCHANGED <<pair, rewards>>
             ELSE /\ phase' = "reward"
                  /\ rewards' = <<>>
                  /\ pair' = 0
                  /\ runs' = runs
    /\ UNCHANGED <<agents, stepid, number, interaction, all_rewards, acts,
                   task_rewards, given, stepid0>>
    /\ UNCHANGED dotVars

\* one pass of the second inner loop: reward = task.getReward(),
\* agent.giveReward(reward), rewards.append(reward)
giveReward ==
    /\ phase = "reward"
    /\ pair < agents
    /\ \E reward \in Rewards :
          /\ task_rewards' = [task_rewards EXCEPT ![pair + 1] = Append(@, reward)]
          /\ given' = [given EXCEPT ![pair + 1] = Append(@, reward)]
          /\ rewards' = Append(rewards, reward)
    /\ pair' = pair + 1
    /\ UNCHANGED <<agents, stepid, phase, number, interaction, all_rewards,
                   acts, statuses, stepid0, runs>>
    /\ UNCHANGED dotVars

\* all_rewards.append(rewards), then the next interaction of
\* range(number), or return all_rewards
appendRewards ==
    /\ phase = "reward"
    /\ pair = agents
    /\ all_rewards' = Append(all_rewards, rewards)
    /\ IF interaction + 1 < number
       THEN /\ interaction' = interaction + 1
            /\ pair' = 0
            /\ acts' = <<>>
            /\ phase' = "act"
            /\ runs' = runs
       ELSE /\ phase' = "returned"
            /\ runs' = runs + 1
            /\ UNCHANGED <<interaction, pair, acts>>
    /\ UNCHANGED <<agents, stepid, number, rewards, statuses, task_rewards,
                   given, stepid0>>
    /\ UNCHANGED dotVars

\* no DotParser is in use
NoDotParser ==
    /\ data = <<>>
    /\ vocab = "headers"
    /\ nstmts = 0
    /\ pc = "header"
    /\ ret = None
    /\ exc = ""
    /\ self = 1
    /\ self_graph = [p \in Parsers |-> None]
    /\ calls = [p \in Parsers |-> 0]

ExperimentInit ==
    /\ NoDotParser
    /\ \E nAgents \in 1..MaxAgents : MarketExperiment(nAgents)

ExperimentNext ==
    \/ doInteractions
    \/ performAction
    \/ solve
    \/ giveReward
    \/ appendRewards

ExperimentSpec == ExperimentInit /\ [][ExperimentNext]_vars

---------------------------------------------------------------------------
(* Properties of parse_dot_data.                                           *)

\* the edges of a container and of the subgraphs and clusters in it
Contained(g) == g.subgraphs \o g.clusters

AllEdges(g) ==
    {g.edges[i] : i \in 1..Len(g.edges)} \cup
    UNION {{Contained(g)[j].edges[i] : i \in 1..Len(Contained(g)[j].edges)} :
             j \in 1..Len(Contained(g))}

\* some lexeme of d is keyword k, in any letter case
HasKeyword(d, k) == \E i \in 1..Len(d) : lower(Spell(d[i])) = Spell(k)

\* the minimal documents [strict] (graph | digraph) [ID] { }
MinimalDocs == {h \o <<"}">> : h \in Headers("headers")}

\* C1: parse_dot_data of a minimal document [strict] (graph|digraph) [ID] { }
\* returns a Graph with no nodes, edges, subgraphs and clusters, directed
\* exactly if the keyword is digraph.
C1_MinimalGraph ==
    (pc \in {"returned", "raised"} /\ data \in MinimalDocs) =>
        /\ pc = "returned"
        /\ isinstance(ret, "Graph")
        /\ ret.nodes = <<>> /\ ret.edges = <<>>
        /\ ret.subgraphs = <<>> /\ ret.clusters = <<>>
        /\ (ret.directed = Bool(TRUE)) <=> HasKeyword(data, "digraph")

\* a minimal document without ID: parse_dot_data raised KeyError
C1_NoID ==
    /\ pc = "raised" /\ exc = "KeyError"
    /\ data \in MinimalDocs
    /\ "G" \notin {data[i] : i \in 1..Len(data)}

\* the endpoint in front of the edge operator at position i of d: an
\* endpoint with a port is ID : port
EndpointBefore(d, i) == IF i > 3 /\ d[i - 2] = ":" THEN d[i - 3] ELSE d[i - 1]

\* the positions of d where an edge operator is followed by an endpoint
EdgeOpPositions(d) ==
    SelectSeq([i \in 1..Len(d) |-> i],
              LAMBDA i : d[i] \in {"->", "--"} /\ identifier(tok(d, i + 1)))

\* the (tail, head) pairs that the edge statements of d spell, left to right
ChainPairs(d) ==
    [k \in 1..Len(EdgeOpPositions(d)) |->
        <<EndpointBefore(d, EdgeOpPositions(d)[k]), d[EdgeOpPositions(d)[k] + 1]>>]

\* the (tail, head) pairs of a sequence of Edge values
EdgePairs(edges) ==
    [k \in 1..Len(edges) |-> <<edges[k].tail_node.ID.v, edges[k].head_node.ID.v>>]

\* C2: the edges of the returned Graph are, in order, the pairs of
\* neighbouring endpoints of the edge statements: N endpoints give N - 1
\* edges, the i-th from endpoint i to endpoint i + 1.
C2_EdgeChain ==
    (pc = "returned" /\ vocab = "edges") =>
        /\ isinstance(ret, "Graph")
        /\ EdgePairs(ret.edges) = ChainPairs(data)

\* a chain of three endpoints and another edge statement were parsed
C2_ChainParsed ==
    /\ pc = "returned" /\ vocab = "edges"
    /\ \E i \in 1..(Len(data) - 4) :
          SubSeq(data, i, i + 4) = <<"a", "->", "b", "->", "c">>
    /\ Len(ret.edges) = 3

\* C3: every Edge of the returned Graph has the connector of the graph's
\* directed flag: "->" in a digraph, "--" in a graph.
C3_ConnectorOfGraph ==
    (pc = "returned" /\ isinstance(ret, "Graph")) =>
        \A e \in AllEdges(ret) :
            e.conn = (IF ret.directed = Bool(TRUE) THEN "->" ELSE "--")

\* a digraph with an edge was returned, the edge's connector is "--"
C3_UndirectedInDigraph ==
    /\ pc = "returned" /\ isinstance(ret, "Graph")
    /\ ret.directed = Bool(TRUE)
    /\ \E e \in AllEdges(ret) : e.conn = "--"

\* the positions of d where a node statement of the "nodes" vocabulary
\* starts: a node name at the start of a statement of the graph body
NodeStmtPositions(d) ==
    SelectSeq([i \in 1..Len(d) |-> i],
              LAMBDA i : i > 1 /\ d[i] \in {"a", "b"} /\ d[i - 1] \in {"{", ";"})

\* the positions in front of i where a statement node [ key = ... ] starts
DefaultsBefore(d, i, key) ==
    {j \in 1..(i - 1) : d[j] = "node" /\ tok(d, j + 1) = "[" /\ tok(d, j + 2) = key}

\* the value of the last node [ key = value ] statement in front of i
DefaultInForce(d, i, key) ==
    d[(CHOOSE j \in DefaultsBefore(d, i, key) :
          \A j2 \in DefaultsBefore(d, i, key) : j2 <= j) + 4]

\* C4: a node statement without an attribute list has the color of the
\* last node [color=...] statement in front of it in the scope, and no
\* color if there is none in front of it.
C4_DefaultsInOrder ==
    (pc = "returned" /\ vocab = "nodes") =>
        /\ Len(ret.nodes) = Len(NodeStmtPositions(data))
        /\ \A k \in 1..Len(ret.nodes) :
              tok(data, NodeStmtPositions(data)[k] + 1) # "[" =>
                 IF DefaultsBefore(data, NodeStmtPositions(data)[k], "color") # {}
                 THEN /\ "color" \in DOMAIN ret.nodes[k].traits
                      /\ ret.nodes[k].traits["color"] =
                            Str(DefaultInForce(data, NodeStmtPositions(data)[k], "color"))
                 ELSE "color" \notin DOMAIN ret.nodes[k].traits

\* a node statement that follows node [color=...] gave a Node without color
C4_DefaultNotApplied ==
    /\ pc = "returned" /\ vocab = "nodes"
    /\ \E k \in 1..Len(ret.nodes) :
          /\ DefaultsBefore(data, NodeStmtPositions(data)[k], "color") # {}
          /\ "color" \notin DOMAIN ret.nodes[k].traits

\* C5: a node statement with an attribute list setting color gives a Node
\* with the statement's color, whatever node [color=...] statement is in
\* front of it.
C5_StatementWins ==
    (pc = "returned" /\ vocab = "nodes") =>
        /\ Len(ret.nodes) = Len(NodeStmtPositions(data))
        /\ \A k \in 1..Len(ret.nodes) :
              tok(data, NodeStmtPositions(data)[k] + 1) = "[" =>
                 /\ "color" \in DOMAIN ret.nodes[k].traits
                 /\ ret.nodes[k].traits["color"] =
                       Str(data[NodeStmtPositions(data)[k] + 4])

\* b [color=green] after node [color=...] was parsed, b has color green
C5_OverrideParsed ==
    /\ pc = "returned" /\ vocab = "nodes"
    /\ \E k \in 1..Len(ret.nodes) :
          /\ tok(data, NodeStmtPositions(data)[k] + 1) = "["
          /\ DefaultsBefore(data, NodeStmtPositions(data)[k], "color") # {}
          /\ ret.nodes[k].traits["color"] = Str("green")

RECURSIVE Scopes(_)
\* a container and all containers nested in it
Scopes(g) ==
    {g} \cup UNION {Scopes(Contained(g)[j]) : j \in 1..Len(Contained(g))}

\* attribute k of value v comes from the statement kind [...] of scope g
FromOwnDefault(g, kind, k, v) ==
    /\ kind \in DOMAIN g.attrs
    /\ k \in DOMAIN g.attrs[kind].v
    /\ g.attrs[kind].v[k] = v

TopSubgraphPositions(d) ==
    SelectSeq([i \in 1..Len(d) |-> i],
              LAMBDA i : d[i] = "subgraph" /\ Depth(SubSeq(d, 1, i - 1)) = 0)

\* identifier id, compared case-insensitively, starts with "cluster"
IsClusterID(id) == lower(Prefix(Spell(id), 7)) = Spell("cluster")

\* the position of the brace that closes the body of the subgraph statement
\* at position i of d
BodyEnd(d, i) ==
    CHOOSE j \in (i + 3)..Len(d) :
        /\ d[j] = "}" /\ Depth(SubSeq(d, 1, j)) = 0
        /\ \A j2 \in (i + 3)..(j - 1) : ~(d[j2] = "}" /\ Depth(SubSeq(d, 1, j2)) = 0)

\* the statements of the body of the subgraph statement at position i of
\* d, read as the body of a graph
BodyAsGraph(d, i) ==
    parseString(<<"graph", "G", "{">> \o SubSeq(d, i + 3, BodyEnd(d, i) - 1) \o <<"}">>).toks[1]

\* container c is of class cls, has identifier id and the content of g
ProducedAs(c, cls, id, g) ==
    /\ c.ty = cls /\ c.ID = Str(id)
    /\ c.nodes = g.nodes /\ c.edges = g.edges /\ c.attrs = g.attrs
    /\ c.subgraphs = g.subgraphs /\ c.clusters = g.clusters

C8_InlinePortWins ==
    (pc = "returned" /\ vocab = "edges") =>
        /\ Len(ret.edges) = Len(EdgeOpPositions(data))
        /\ \A k \in 1..Len(ret.edges) :
              /\ data[EdgeOpPositions(data)[k] - 2] = ":" =>
                    /\ "tailport" \in DOMAIN ret.edges[k].traits
                    /\ ret.edges[k].traits["tailport"] =
                          Str(Concat(<<":", data[EdgeOpPositions(data)[k] - 1]>>))
              /\ tok(data, EdgeOpPositions(data)[k] + 2) = ":" =>
                    /\ "headport" \in DOMAIN ret.edges[k].traits
                    /\ ret.edges[k].traits["headport"] =
                          Str(Concat(<<":", data[EdgeOpPositions(data)[k] + 3]>>))

\* a : nw -> b [ tailport = e ] was parsed, the edge has tailport :nw
C8_PortAndAttribute ==
    /\ pc = "returned" /\ vocab = "edges"
    /\ \E k \in 1..Len(ret.edges) :
          /\ data[EdgeOpPositions(data)[k] - 2] = ":"
          /\ SubSeq(data, EdgeOpPositions(data)[k] + 2, EdgeOpPositions(data)[k] + 5)
                = <<"[", "tailport", "=", "e">>
          /\ ret.edges[k].traits["tailport"] = Str(":nw")

\* an edge operator of d is not followed by an endpoint
DanglingEdgeOp(d) ==
    \E i \in 1..Len(d) : d[i] \in {"->", "--"} /\ ~identifier(tok(d, i + 1))

\* C9: parse_dot_data of a document in which an edge operator is not
\* followed by an endpoint raises ParseException and returns no Graph.
C9_DanglingEdgeRaises ==
    (pc \in {"returned", "raised"} /\ DanglingEdgeOp(data)) =>
        /\ pc = "raised" /\ exc = "ParseException"
        /\ ret = None

\* a Graph was returned for a text with an edge operator without endpoint
C9_DanglingReturned ==
    /\ pc = "returned" /\ isinstance(ret, "Graph")
    /\ DanglingEdgeOp(data)

\* C10: when parse_dot_data returns a Graph, the grammar has matched the
\* whole text: nothing of data is left behind the match.
C10_AllOrNothing ==
    pc = "returned" =>
        /\ isinstance(ret, "Graph")
        /\ parseString(data).loc = Len(skipIgnorables(data)) + 1

\* a Graph was returned although text follows the match
C10_PrefixReturned ==
    /\ pc = "returned" /\ isinstance(ret, "Graph")
    /\ parseString(data).loc <= Len(skipIgnorables(data))

\* the braces of d do not pair up, or text follows the brace that closes
\* the graph
MismatchedBraces(d) ==
    \/ Count(d, "{") # Count(d, "}")
    \/ \E i \in 1..(Len(d) - 1) : d[i] = "}" /\ Depth(SubSeq(d, 1, i)) = -1

\* C11: parse_dot_data of a document with a missing closing brace, a
\* surplus closing brace or any text after the brace that closes the graph
\* raises ParseException.
C11_MismatchedBracesRaise ==
    (pc \in {"returned", "raised"} /\ Len(data) > 0 /\ MismatchedBraces(data)) =>
        pc = "raised" /\ exc = "ParseException"

\* a Graph was returned for a text with more closing than opening braces
C11_SurplusBraceReturned ==
    /\ pc = "returned" /\ isinstance(ret, "Graph")
    /\ Count(data, "}") > Count(data, "{")

\* a text whose last brace is missing made parse_dot_data raise
C11_MissingBraceRaised ==
    /\ pc = "raised" /\ exc = "ParseException"
    /\ Count(data, "{") > Count(data, "}")

\* d with its comments removed
Uncommented(d) == SelectSeq(d, LAMBDA t : t \notin {"// c", "/* c */"})

WellClosed(d) == Len(d) > 0 /\ d[Len(d)] = "}" /\ ~MismatchedBraces(d)

\* some statement of d starts with lexeme t
StartsStmt(d, t) == \E i \in 2..Len(d) : d[i] = t /\ d[i - 1] \in {"{", ";"}

\* C13: a document whose only unusual part is an attribute key outside the
\* known vocabulary (foo) parses: a node statement b [foo=bar] gives a Node
\* with attribute foo = "bar", an assignment foo = bar sets foo = "bar" on
\* the Graph.
C13_UnknownKeyStored ==
    (pc \in {"returned", "raised"} /\ vocab = "attrs" /\ WellClosed(data)) =>
        /\ pc = "returned"
        /\ StartsStmt(data, "foo") =>
              "foo" \in DOMAIN ret.attrs /\ ret.attrs["foo"] = Str("bar")
        /\ \A i \in 2..(Len(data) - 2) :
              (data[i] = "b" /\ data[i + 2] = "foo") =>
                 \E k \in 1..Len(ret.nodes) :
                    /\ ret.nodes[k].ID = Str("b")
                    /\ "foo" \in DOMAIN ret.nodes[k].traits
                    /\ ret.nodes[k].traits["foo"] = Str("bar")

\* a well closed document with the key foo made parse_dot_data raise
C13_UnknownKeyRaised ==
    /\ pc = "raised" /\ exc = "ParseException" /\ vocab = "attrs"
    /\ WellClosed(data)
    /\ \E i \in 1..Len(data) : data[i] = "foo"

\* the positions of the keys in the attribute list of the node statement
\* that starts at position i of d: the list ends at the next semicolon
KeyPositions(d, i) ==
    {j \in (i + 1)..Len(d) :
        /\ tok(d, j + 1) = "="
        /\ \A j2 \in i..j : d[j2] # ";"}

\* the attribute list of the node statement at position i of d, merged
\* left to right: each key with the value of its last occurrence
MergedAttrs(d, i) ==
    [k \in {d[j] : j \in KeyPositions(d, i)} |->
        Str(d[(CHOOSE j \in KeyPositions(d, i) :
                  /\ d[j] = k
                  /\ \A j2 \in KeyPositions(d, i) : d[j2] = k => j2 <= j) + 2])]

\* C20: the attributes of a Node whose statement has several bracket groups
\* are the keys of all groups, each with the value of its last occurrence
\* across the groups read left to right.
C20_LastWriteWins ==
    (pc = "returned" /\ vocab = "attrs") =>
        /\ Len(ret.nodes) = Len(NodeStmtPositions(data))
        /\ \A k \in 1..Len(ret.nodes) :
              ret.nodes[k].traits = MergedAttrs(data, NodeStmtPositions(data)[k])

\* a Node of three bracket groups, two of them setting color, was returned
C20_GroupsMerged ==
    /\ pc = "returned" /\ vocab = "attrs"
    /\ \E k \in 1..Len(ret.nodes) :
          /\ Cardinality({j \in KeyPositions(data, NodeStmtPositions(data)[k]) :
                             data[j] = "color" /\ data[j - 1] = "["}) = 2
          /\ ret.nodes[k].traits = ("color" :> Str("blue")) @@ ("shape" :> Str("box"))

\* the first lexeme of d is the keyword strict, in any letter case
StrictHeader(d) == Len(d) > 0 /\ lower(Spell(d[1])) = Spell("strict")

\* C14: the strict flag of the returned Graph is the boolean "the header
\* starts with the keyword strict", and a document without the keyword
\* parses exactly if the document with strict put in front of it does.
C14_StrictFlag ==
    (pc \in {"returned", "raised"} /\ vocab = "headers") =>
        /\ pc = "returned" => ret.strict = Bool(StrictHeader(data))
        /\ ~StrictHeader(data) =>
              ((pc = "returned") <=> (parseString(<<"strict">> \o data).st = "match"))

\* a Graph with strict false was returned for a header without strict
C14_NotStrictParsed ==
    /\ pc = "returned" /\ vocab = "headers"
    /\ ~StrictHeader(data)
    /\ ret.strict = Bool(FALSE)

\* the positions of d where a brace block without the subgraph keyword
\* starts as a statement of the graph body
TopBlockPositions(d) ==
    SelectSeq([i \in 1..Len(d) |-> i],
              LAMBDA i : /\ i > 1 /\ d[i] = "{" /\ d[i - 1] \in {"{", ";", "}"}
                         /\ Depth(SubSeq(d, 1, i - 1)) = 0)

\* C15: a document with brace blocks { stmt_list } as statements parses;
\* each block of the graph body is, in order, an unnamed Subgraph of
\* subgraphs holding what the block's statements give as a graph body.
C15_AnonymousBlock ==
    (pc \in {"returned", "raised"} /\ vocab = "blocks" /\ WellClosed(data)) =>
        /\ pc = "returned"
        /\ Len(ret.subgraphs) = Len(TopBlockPositions(data))
        /\ \A k \in 1..Len(ret.subgraphs) :
              ProducedAs(ret.subgraphs[k], "Subgraph", "",
                         BodyAsGraph(data, TopBlockPositions(data)[k] - 2))

\* a well closed document with a brace block made parse_dot_data raise
C15_BlockRaised ==
    /\ pc = "raised" /\ exc = "ParseException" /\ vocab = "blocks"
    /\ WellClosed(data)
    /\ TopBlockPositions(data) # <<>>

\* the position of the first opening brace of d
FirstBrace(d) == CHOOSE i \in 1..Len(d) : d[i] = "{" /\ \A j \in 1..(i - 1) : d[j] # "{"

\* the elements the statements of the graph body of d give, in the order
\* of the statements
BodyElements(d) ==
    Optional(FirstBrace(skipIgnorables(d)) + 1,
             stmt_list(skipIgnorables(d), FirstBrace(skipIgnorables(d)) + 1)).toks

\* the elements of class cls among elements, in their order
OfClass(elements, cls) == SelectSeq(elements, LAMBDA e : isinstance(e, cls))

EdgeStmtPositions(d) ==
    SelectSeq([i \in 1..Len(d) |-> i],
              LAMBDA i : i > 1 /\ d[i] = "a" /\ tok(d, i + 1) = "->"
                               /\ d[i - 1] \in {"{", ";"})

\* the positions in front of i where a statement edge [ key = ... ] starts
EdgeDefaultsBefore(d, i, key) ==
    {j \in 1..(i - 1) : d[j] = "edge" /\ tok(d, j + 1) = "[" /\ tok(d, j + 2) = key}

\* the value of the last edge [ key = value ] statement in front of i
EdgeDefaultInForce(d, i, key) ==
    d[(CHOOSE j \in EdgeDefaultsBefore(d, i, key) :
          \A j2 \in EdgeDefaultsBefore(d, i, key) : j2 <= j) + 4]

\* C18: an Edge has the color of its own statement's attribute list if
\* the list sets one, else the color of the last edge [color=...]
\* statement in front of it in the scope, and no color if there is none.
C18_EdgeDefaultsInOrder ==
    (pc = "returned" /\ vocab = "edgedefaults") =>
        /\ Len(ret.edges) = Len(EdgeStmtPositions(data))
        /\ \A k \in 1..Len(ret.edges) :
              IF tok(data, EdgeStmtPositions(data)[k] + 3) = "["
              THEN /\ "color" \in DOMAIN ret.edges[k].traits
                   /\ ret.edges[k].traits["color"] =
                         Str(tok(data, EdgeStmtPositions(data)[k] + 6))
              ELSE IF EdgeDefaultsBefore(data, EdgeStmtPositions(data)[k], "color") # {}
                   THEN /\ "color" \in DOMAIN ret.edges[k].traits
                        /\ ret.edges[k].traits["color"] =
                              Str(EdgeDefaultInForce(data, EdgeStmtPositions(data)[k], "color"))
                   ELSE "color" \notin DOMAIN ret.edges[k].traits

\* an edge statement that follows edge [color=...] gave an Edge without
\* color
C18_EdgeDefaultNotApplied ==
    /\ pc = "returned" /\ vocab = "edgedefaults"
    /\ \E k \in 1..Len(ret.edges) :
          /\ EdgeDefaultsBefore(data, EdgeStmtPositions(data)[k], "color") # {}
          /\ "color" \notin DOMAIN ret.edges[k].traits

\* d from position i on, with every statement label = x written as
\* graph [ label = x ]
RECURSIVE AsAttrStmt(_, _)
AsAttrStmt(d, i) ==
    IF i > Len(d) THEN <<>>
    ELSE IF i > 1 /\ d[i] = "label" /\ d[i - 1] \in {"{", ";"} /\ tok(d, i + 1) = "="
         THEN <<"graph", "[", "label", "=", tok(d, i + 2), "]">> \o AsAttrStmt(d, i + 3)
         ELSE <<d[i]>> \o AsAttrStmt(d, i + 1)

\* the positions of d where a statement label = x or graph [ label = x ]
\* has its key
LabelPositions(d) ==
    {i \in 2..Len(d) : d[i] = "label" /\ tok(d, i + 1) = "="}

\* C19: the Graph of a document is the Graph of the document with each
\* label = x written as graph [ label = x ], and after either statement
\* the Graph has the attribute label with the statement's value.
C19_AssignmentAsAttrStmt ==
    (pc = "returned" /\ vocab = "graphattrs") =>
        /\ parseString(AsAttrStmt(data, 1)).st = "match"
        /\ ret = parseString(AsAttrStmt(data, 1)).toks[1]
        /\ LabelPositions(data) # {} =>
              /\ "label" \in DOMAIN ret.attrs
              /\ ret.attrs["label"] = Str("x")

\* graph [label = x] was parsed and the Graph has no attribute label but
\* an attribute set_def_graph_attr
C19_LabelNotSet ==
    /\ pc = "returned" /\ vocab = "graphattrs"
    /\ \E i \in LabelPositions(data) : data[i - 1] = "["
    /\ "label" \notin DOMAIN ret.attrs
    /\ "set_def_graph_attr" \in DOMAIN ret.attrs

\* d has a node statement whose node id carries a port
PortNodeStmt(d) ==
    \E i \in 2..Len(d) :
        d[i] \in {"a", "b"} /\ d[i - 1] \in {"{", ";"} /\ tok(d, i + 1) = ":"

\* C21: a document whose node statements carry ports parses, with one
\* Node per node statement, and no Node has the port among its attributes:
\* its attributes are those of the statement's attribute list.
C21_PortOnNode ==
    (pc \in {"returned", "raised"} /\ vocab = "ports" /\ WellClosed(data)) =>
        /\ pc = "returned"
        /\ Len(ret.nodes) = Len(NodeStmtPositions(data))
        /\ \A k \in 1..Len(ret.nodes) :
              /\ ret.nodes[k].ID = Str(data[NodeStmtPositions(data)[k]])
              /\ DOMAIN ret.nodes[k].traits \subseteq {"color"}

\* a well closed document with a node statement a:nw made parse_dot_data
\* raise KeyError
C21_PortNodeRaised ==
    /\ pc = "raised" /\ exc = "KeyError" /\ vocab = "ports"
    /\ WellClosed(data) /\ PortNodeStmt(data)

\* the positions of d where a node statement without attribute list and
\* port starts: an identifier at the start of a statement, not followed by
\* an edge operator
PlainNodePositions(d) ==
    SelectSeq([i \in 1..Len(d) |-> i],
              LAMBDA i : /\ i > 1 /\ d[i] \in {"a", "b"}
                         /\ d[i - 1] \in {"{", ";"}
                         /\ tok(d, i + 1) \notin {"->", "--"})

\* C22: the nodes of the returned Graph are, in order, one Node per node
\* statement, repeated identifiers included; the edges are one Edge per
\* edge statement a -> b, whose endpoints are Nodes with the identifier
\* and no attribute, and no endpoint is added to the nodes.
C22_NodesAreNodeStatements ==
    (pc = "returned" /\ vocab = "comments") =>
        /\ Len(ret.nodes) = Len(PlainNodePositions(skipIgnorables(data)))
        /\ \A k \in 1..Len(ret.nodes) :
              ret.nodes[k] =
                 Node(Str(skipIgnorables(data)[PlainNodePositions(skipIgnorables(data))[k]]),
                      EmptyDict)
        /\ Len(ret.edges) = Len(EdgeStmtPositions(skipIgnorables(data)))
        /\ \A k \in 1..Len(ret.edges) :
              /\ ret.edges[k].tail_node = Node(Str("a"), EmptyDict)
              /\ ret.edges[k].head_node = Node(Str("b"), EmptyDict)

\* two node statements for the same identifier and an edge statement with
\* that identifier as endpoint were parsed
C22_RepeatedIdentifier ==
    /\ pc = "returned" /\ vocab = "comments"
    /\ Len(ret.nodes) = 2 /\ ret.nodes[1].ID = ret.nodes[2].ID
    /\ Len(ret.edges) = 1 /\ ret.edges[1].tail_node.ID = ret.nodes[1].ID

\* the positions of the graph's text d (up to the brace that closes the
\* graph) where a statement starts with an identifier a or b; those
\* followed by an edge operator start an edge statement, the others are
\* node statements
StmtStarts(d, edge) ==
    {i \in 2..Len(d) :
        /\ d[i] \in {"a", "b"} /\ d[i - 1] \in {"{", ";", "}"}
        /\ Depth(SubSeq(d, 1, i - 1)) >= 0
        /\ (tok(d, i + 1) \in {"->", "--"}) = edge}

\* those of them in the body of the graph itself
TopStmtStarts(d, edge) ==
    {i \in StmtStarts(d, edge) : Depth(SubSeq(d, 1, i - 1)) = 0}

RECURSIVE CountNodes(_), CountNodesIn(_, _), CountEdges(_), CountEdgesIn(_, _)
\* the Nodes in the nodes of container g and of all containers in it
CountNodes(g) == Len(g.nodes) + CountNodesIn(Contained(g), 1)

CountNodesIn(cs, j) ==
    IF j > Len(cs) THEN 0 ELSE CountNodes(cs[j]) + CountNodesIn(cs, j + 1)

\* the Edges in the edges of container g and of all containers in it
CountEdges(g) == Len(g.edges) + CountEdgesIn(Contained(g), 1)

CountEdgesIn(cs, j) ==
    IF j > Len(cs) THEN 0 ELSE CountEdges(cs[j]) + CountEdgesIn(cs, j + 1)

\* C23: the Graph's own nodes and edges are the node and edge statements
\* of its own body, its subgraphs and clusters the subgraph statements of
\* its own body, and all containers together hold one Node per node
\* statement and one Edge per edge statement: what a subgraph body
\* produces is in the subgraph only.
C23_ContainmentTree ==
    (pc = "returned" /\ vocab = "scopes") =>
        /\ Len(ret.nodes) = Cardinality(TopStmtStarts(data, FALSE))
        /\ Len(ret.edges) = Cardinality(TopStmtStarts(data, TRUE))
        /\ Len(Contained(ret)) = Len(TopSubgraphPositions(data))
        /\ CountNodes(ret) = Cardinality(StmtStarts(data, FALSE))
        /\ CountEdges(ret) = Cardinality(StmtStarts(data, TRUE))

\* a Graph with a node statement of its own and a subgraph with an edge
\* statement in its body was returned
C23_NestedAndOwn ==
    /\ pc = "returned" /\ vocab = "scopes"
    /\ Len(ret.nodes) = 1 /\ ret.edges = <<>>
    /\ \E j \in 1..Len(Contained(ret)) : Len(Contained(ret)[j].edges) = 1

\* C24: parse_dot_data raises nothing but the ParseException of text that
\* the grammar does not match: no parse action raises on the tokens its
\* expression matched.
C24_ActionsNeverFail ==
    pc = "raised" => exc = "ParseException"

\* a parse action raised on tokens that its expression had matched: the
\* text up to the closing brace is well formed and the exception is not
\* ParseException
C24_ActionRaised ==
    /\ pc = "raised" /\ exc # "ParseException"
    /\ WellClosed(data)
    /\ vocab \in {"headers", "ports"}

RECURSIVE JoinLexemes(_, _, _)
\* the text of the lexemes i..j of d
JoinLexemes(d, i, j) == IF i > j THEN "" ELSE d[i] \o JoinLexemes(d, i + 1, j)

\* the positions of d where a statement starts; each ends at a semicolon
HtmlStmtStarts(d) ==
    SelectSeq([i \in 1..Len(d) |-> i],
              LAMBDA i : i > 1 /\ d[i - 1] \in {"{", ";"} /\ d[i] \in {"a", "<"})

\* the position of the semicolon that ends the statement at position i
StmtEnd(d, i) ==
    CHOOSE j \in i..Len(d) : d[j] = ";" /\ \A j2 \in i..(j - 1) : d[j2] # ";"

\* the ID the statement at position i of d should give: an identifier as
\* it is, a label <...> as the text between its outer angle brackets
\* inside the sentinel pair
LabelValue(d, i) ==
    IF d[i] = "<"
    THEN "<<" \o JoinLexemes(d, i + 1, StmtEnd(d, i) - 2) \o ">>"
    ELSE d[i]

\* C25: a document of node statements whose IDs are identifiers or labels
\* <...> with balanced angle brackets parses, and the ID of each Node is
\* the text between the label's outer angle brackets, inner angle brackets
\* as they are, inside << and >>.
C25_HtmlLabelVerbatim ==
    (/\ pc \in {"returned", "raised"} /\ vocab = "html"
     /\ WellClosed(data) /\ Count(data, "<") = Count(data, ">")) =>
        /\ pc = "returned"
        /\ Len(ret.nodes) = Len(HtmlStmtStarts(data))
        /\ \A k \in 1..Len(ret.nodes) :
              ret.nodes[k].ID = Str(LabelValue(data, HtmlStmtStarts(data)[k]))

\* the label <a<b>c> was parsed and the ID of the Node is <<a<<b>>c>>
C25_InnerBracketsDoubled ==
    /\ pc = "returned" /\ vocab = "html"
    /\ \E k \in 1..Len(ret.nodes) : ret.nodes[k].ID = Str("<<a<<b>>c>>")

\* the inline port of the tail endpoint of the edge whose operator is at
\* position i of d, "" if the endpoint has none
InlineTailPort(d, i) == IF i > 3 /\ d[i - 2] = ":" THEN ":" \o d[i - 1] ELSE ""

\* the inline port of its head endpoint, "" if the endpoint has none
InlineHeadPort(d, i) == IF tok(d, i + 2) = ":" THEN ":" \o tok(d, i + 3) ELSE ""

\* the positions of key in the attribute list of the statement that the
\* position i of d is in
ListKeys(d, i, key) ==
    {j \in i..StmtEnd(d, i) : d[j] = key /\ tok(d, j + 1) = "="}

\* attribute key of traits is the inline port if there is one, else what
\* the attribute list of the statement at i gives for key, else not set
PortFrom(traits, key, inline, d, i) ==
    IF inline # ""
    THEN key \in DOMAIN traits /\ traits[key] = Str(inline)
    ELSE IF ListKeys(d, i, key) # {}
    THEN key \in DOMAIN traits /\ \E j \in ListKeys(d, i, key) : traits[key] = Str(d[j + 2])
    ELSE key \notin DOMAIN traits

\* C26: every Edge of a chain has as tailport the inline port of its own
\* tail endpoint, and as headport that of its own head endpoint; without
\* an inline port on its endpoint it has the tailport or headport of the
\* statement's attribute list, or none.
C26_PortsOfOwnEndpoints ==
    (pc = "returned" /\ vocab = "chains") =>
        /\ Len(ret.edges) = Len(EdgeOpPositions(data))
        /\ \A k \in 1..Len(ret.edges) :
              /\ PortFrom(ret.edges[k].traits, "tailport",
                          InlineTailPort(data, EdgeOpPositions(data)[k]),
                          data, EdgeOpPositions(data)[k])
              /\ PortFrom(ret.edges[k].traits, "headport",
                          InlineHeadPort(data, EdgeOpPositions(data)[k]),
                          data, EdgeOpPositions(data)[k])

\* an Edge whose tail endpoint has no inline port has as tailport the
\* inline port of an earlier endpoint of the chain
C26_StalePort ==
    /\ pc = "returned" /\ vocab = "chains"
    /\ \E k \in 1..Len(ret.edges) :
          /\ Len(ret.edges) = Len(EdgeOpPositions(data))
          /\ InlineTailPort(data, EdgeOpPositions(data)[k]) = ""
          /\ "tailport" \in DOMAIN ret.edges[k].traits
          /\ ret.edges[k].traits["tailport"] = Str(":nw")

\* statement kw [...] of d has an empty attribute list wherever it occurs
OnlyEmptyLists(d, kw) ==
    \A i \in 2..Len(d) :
        (d[i] = kw /\ d[i - 1] \in {"{", ";"}) => tok(d, i + 2) = "]"

\* C30: after a statement node [...], edge [...] or graph [...], empty
\* list or not, the Graph has the attribute set_def_node_attr,
\* set_def_edge_attr or set_def_graph_attr, an empty map if the keyword's
\* lists are all empty, and it never has the attribute unknown.
C30_EmptyListClassified ==
    (pc = "returned" /\ vocab = "emptylists") =>
        /\ "unknown" \notin DOMAIN ret.attrs
        /\ \A kw \in {"node", "edge", "graph"} :
              StartsStmt(data, kw) =>
                 /\ ("set_def_" \o kw \o "_attr") \in DOMAIN ret.attrs
                 /\ OnlyEmptyLists(data, kw) =>
                       ret.attrs["set_def_" \o kw \o "_attr"] = Dict(EmptyDict)

\* node [] was parsed and the Graph has the attribute unknown and no
\* attribute set_def_node_attr
C30_EmptyListUnknown ==
    /\ pc = "returned" /\ vocab = "emptylists"
    /\ StartsStmt(data, "node") /\ OnlyEmptyLists(data, "node")
    /\ "unknown" \in DOMAIN ret.attrs
    /\ "set_def_node_attr" \notin DOMAIN ret.attrs

---------------------------------------------------------------------------
(* Properties of MarketExperiment.doInteractions.                          *)

\* the solutions of the call that were optimal
Optimal == {k \in 1..Len(statuses) : statuses[k] = "optimal"}

\* C27: doInteractions returns one entry per interaction with an optimal
\* solution: every solution but the last of the call is optimal, a
\* solution that is not optimal is the last, and without one there are
\* number solutions; each entry has one reward per agent, the i-th being
\* what task i returned and agent i was given in that interaction.
C27_RewardsPerOptimalInteraction ==
    phase = "returned" =>
        /\ Len(all_rewards) <= number
        /\ Len(all_rewards) = Cardinality(Optimal)
        /\ \A k \in 1..(Len(statuses) - 1) : k \in Optimal
        /\ Optimal = 1..Len(statuses) => Len(statuses) = number
        /\ \A k \in 1..Len(all_rewards) :
              /\ Len(all_rewards[k]) = agents
              /\ \A a \in 1..agents :
                    /\ all_rewards[k][a] = task_rewards[a][k]
                    /\ all_rewards[k][a] = given[a][k]

\* a call with number = 2 and two agents returned one entry: the second
\* solution was not optimal
C27_StoppedAtSecond ==
    /\ phase = "returned" /\ number = 2 /\ agents = 2
    /\ Len(all_rewards) = 1
    /\ statuses = <<"optimal", "infeasible">>

\* C28: in every interaction under way the power system is solved at most
\* once, and only when every agent i has acted with task i; an agent has
\* a reward of the interaction only when the solution of the interaction
\* is there and optimal; after a solution that is not optimal every agent
\* has acted and none has a reward of the interaction.
C28_PhasesInOrder ==
    phase \in {"act", "reward", "returned"} =>
        /\ Len(statuses) \in {interaction, interaction + 1}
        /\ \A k \in 1..Len(acts) : acts[k] = [agent |-> k, task |-> k]
        /\ Len(statuses) = interaction + 1 => Len(acts) = agents
        /\ \A a \in 1..agents :
              /\ Len(given[a]) <= interaction + 1
              /\ Len(given[a]) = interaction + 1 =>
                    /\ Len(statuses) = interaction + 1
                    /\ statuses[interaction + 1] = "optimal"
        /\ (statuses # <<>> /\ Len(statuses) \notin Optimal) =>
              /\ phase = "returned"
              /\ Len(acts) = agents
              /\ \A a \in 1..agents : Len(given[a]) = Len(statuses) - 1

\* in the second interaction of a call both agents have their reward
C28_SecondInteractionRewarded ==
    /\ phase = "reward" /\ interaction = 1
    /\ agents = 2 /\ pair = 2

\* C29: stepid is 0 after construction, no step makes it smaller, and when
\* doInteractions has returned it is what it was at the call plus
\* len(agents) for every interaction started, the one broken off included.
C29_StepidCountsActions ==
    /\ []((runs = 0 /\ phase = "idle") => stepid = 0)
    /\ [][stepid' >= stepid]_vars
    /\ [](phase = "returned" => stepid = stepid0 + agents * Len(statuses))

\* a second call on an experiment of two agents has returned after an
\* interaction that was broken off
C29_BrokenOffCounted ==
    /\ phase = "returned" /\ runs = 2 /\ agents = 2
    /\ stepid0 > 0
    /\ statuses = <<"infeasible">>
    /\ stepid = stepid0 + 2

=============================================================================
